---------------------------- MODULE Spec2Model ----------------------------
(***************************************************************************)
(* Colour Contrast Analyser (WebAccessibilityTools/CCA), frontend stores.  *)
(*                                                                         *)
(* The repository holds four versions of the Alpine.js store:              *)
(*   src/src/store.ts      colorPickerStore, hex-string payloads           *)
(*   src/unnamed/part_000  UIStore, RGB + hex + rounded-ratio payloads     *)
(*   src/unnamed/part_001  colorPickerStore, RGB-tuple payloads            *)
(*   src/unnamed/part_002  Alpine.store('colorPicker'), single colour      *)
(* and, before any store, the page script of src/src/main.ts (lines 1-51)  *)
(* that keeps the same state in the elements of the page;                  *)
(* together with the colour codec (src/src/main.ts, utils.ts part) and the *)
(* startup IIFE that wires a store to the Tauri backend.  One behaviour of *)
(* the model runs ONE of these versions (variable variant, chosen in       *)
(* Init); JavaScript strings are TLA+ strings, JavaScript null is the      *)
(* reserved value null below.                                              *)
(***************************************************************************)
EXTENDS Integers, Sequences, FiniteSets, TLC

(***************************************************************************)
(* JavaScript string and number primitives used by the codec.              *)
(***************************************************************************)

\* JavaScript null for a `string | null` field (no payload string equals it).
null == "<null>"

\* if (v): a string|null value is truthy unless it is null or ''.
Truthy(v) == v # null /\ v # ""

Min(a, b) == IF a <= b THEN a ELSE b

\* The i-th character (1-based) of s as a one-character string.
CharAt(s, i) == SubSeq(s, i, i)

\* String.prototype.slice(a, b) for 0 <= a <= b: clamped to the length.
Slice(s, a, b) ==
    IF a >= Min(b, Len(s)) THEN "" ELSE SubSeq(s, a + 1, Min(b, Len(s)))

HexDigitsLower == "0123456789abcdef"
LowerLetters == "abcdefghijklmnopqrstuvwxyz"
UpperLetters == "ABCDEFGHIJKLMNOPQRSTUVWXYZ"

\* The hexadecimal digits of either case with their values 0..15.
HexDigitValues ==
    [c \in {CharAt(HexDigitsLower, i) : i \in 1..16}
            \cup {CharAt(UpperLetters, i) : i \in 1..6} |->
        IF \E i \in 1..16 : CharAt(HexDigitsLower, i) = c
        THEN (CHOOSE i \in 1..16 : CharAt(HexDigitsLower, i) = c) - 1
        ELSE (CHOOSE i \in 1..6 : CharAt(UpperLetters, i) = c) + 9]

HexDigitSet == DOMAIN HexDigitValues

IsHexDigit(c) == c \in HexDigitSet

HexDigitValue(c) == HexDigitValues[c]

\* The upper-case letter of each lower-case ASCII letter.
UpperOf ==
    [c \in {CharAt(LowerLetters, i) : i \in 1..26} |->
        CharAt(UpperLetters, CHOOSE i \in 1..26 : CharAt(LowerLetters, i) = c)]

\* A JavaScript number as produced by parseInt: an integer or NaN.
NaN == [nan |-> TRUE, n |-> 0]
Num(k) == [nan |-> FALSE, n |-> k]

\* StrWhiteSpaceChar: the white space parseInt skips.  Tab, line feed,
\* vertical tab (U+000B), form feed, carriage return, space, no-break space
\* (U+00A0), ogham space mark (U+1680) and zero width no-break space
\* (U+FEFF), the last five written as the characters themselves.  The other
\* StrWhiteSpaceChar (U+2000 to U+200A, U+2028, U+2029, U+202F, U+205F,
\* U+3000) cannot be written in a string of a module, so no string here
\* carries them.
WhiteSpaceChars ==
    {"\t", "\n", "", "\f", "\r", " ", " ", " ", "﻿"}

\* StrWhiteSpaceChar prefix removal.
RECURSIVE TrimStart(_)
TrimStart(s) ==
    IF Len(s) > 0 /\ CharAt(s, 1) \in WhiteSpaceChars
    THEN TrimStart(Slice(s, 1, Len(s)))
    ELSE s

\* Value of the longest prefix of hex digits of s, acc digits read so far;
\* -1 when no digit was read at all.
RECURSIVE HexPrefixValue(_, _, _)
HexPrefixValue(s, acc, any) ==
    IF Len(s) > 0 /\ IsHexDigit(CharAt(s, 1))
    THEN HexPrefixValue(Slice(s, 1, Len(s)), acc * 16 + HexDigitValue(CharAt(s, 1)), TRUE)
    ELSE IF any THEN acc ELSE -1

\* parseInt(string, 16): leading white space, an optional sign, an optional
\* 0x / 0X prefix, then the longest run of hex digits; NaN when that is empty.
parseInt16(str) ==
    LET t == TrimStart(str)
        neg == Len(t) > 0 /\ CharAt(t, 1) = "-"
        signed == Len(t) > 0 /\ (CharAt(t, 1) = "-" \/ CharAt(t, 1) = "+")
        u == IF signed THEN Slice(t, 1, Len(t)) ELSE t
        prefixed == Len(u) >= 2 /\ (Slice(u, 0, 2) = "0x" \/ Slice(u, 0, 2) = "0X")
        z == IF prefixed THEN Slice(u, 2, Len(u)) ELSE u
        v == HexPrefixValue(z, 0, FALSE)
    IN  IF v < 0 THEN NaN ELSE Num(IF neg THEN 0 - v ELSE v)

\* Digits of k >= 0 in the given radix, taken from the digit alphabet.
RECURSIVE RadixDigits(_, _, _)
RadixDigits(k, radix, alphabet) ==
    IF k < radix THEN CharAt(alphabet, k + 1)
    ELSE RadixDigits(k \div radix, radix, alphabet) \o CharAt(alphabet, (k % radix) + 1)

\* Number.prototype.toString(radix) of an integer (lower-case digits).
IntToString(k, radix) ==
    IF k < 0 THEN "-" \o RadixDigits(0 - k, radix, HexDigitsLower)
    ELSE RadixDigits(k, radix, HexDigitsLower)

\* `${x}` of a number produced by parseInt.
NumToString(x) == IF x.nan THEN "NaN" ELSE IntToString(x.n, 10)

\* String.prototype.padStart(width, '0').
RECURSIVE padStart(_, _)
padStart(s, width) == IF Len(s) >= width THEN s ELSE padStart("0" \o s, width)

\* String.prototype.toUpperCase() (ASCII letters).
RECURSIVE toUpperCase(_)
toUpperCase(s) ==
    IF Len(s) = 0 THEN ""
    ELSE LET c == CharAt(s, 1)
         IN  (IF c \in DOMAIN UpperOf THEN UpperOf[c] ELSE c)
                 \o toUpperCase(Slice(s, 1, Len(s)))

(***************************************************************************)
(* Colour codec, utils.ts (src/src/main.ts lines 53-84).                   *)
(***************************************************************************)

\* The body of hexToRgb (lines 60-76): "r, g, b" from the three
\* two-character slices.
HexToRgbBody(hex) ==
    LET r == parseInt16(Slice(hex, 1, 3))
        g == parseInt16(Slice(hex, 3, 5))
        b == parseInt16(Slice(hex, 5, 7))
    IN  NumToString(r) \o ", " \o NumToString(g) \o ", " \o NumToString(b)

\* Hex strings a payload may carry: canonical, lower/mixed case, malformed
\* (short, with a non-hex digit).
HexSamples == {"#FFFFFF", "#0a1B2c", "#FFG"}

\* HexToRgbBody on the payload strings, evaluated once.
HexToRgbOfSample == [h \in HexSamples |-> HexToRgbBody(h)]

\* Mutant of hexToRgb: the channels are written in the order blue, green, red.
hexToRgbReversed(hex) ==
    LET r == parseInt16(Slice(hex, 1, 3))
        g == parseInt16(Slice(hex, 3, 5))
        b == parseInt16(Slice(hex, 5, 7))
    IN  NumToString(b) \o ", " \o NumToString(g) \o ", " \o NumToString(r)

\* hexToRgb(hex).
hexToRgb(hex) ==
    IF hex \in HexSamples THEN HexToRgbOfSample[hex] ELSE HexToRgbBody(hex)

\* Mutant of ChannelHex: no padding to two digits.
ChannelHexUnpadded(c) == toUpperCase(IntToString(c, 16))

\* Mutant of ChannelHex: toUpperCase() is not applied.
ChannelHexLower(c) == padStart(IntToString(c, 16), 2)

\* One channel of rgbToHex: toString(16).padStart(2, '0').toUpperCase().
ChannelHex(c) == toUpperCase(padStart(IntToString(c, 16), 2))

\* rgbToHex(r, g, b).
rgbToHex(r, g, b) == "#" \o ChannelHex(r) \o ChannelHex(g) \o ChannelHex(b)

\* `${r}, ${g}, ${b}` of an RGB tuple.
RgbDisplay(rgb) ==
    IntToString(rgb[1], 10) \o ", " \o IntToString(rgb[2], 10) \o ", "
        \o IntToString(rgb[3], 10)


(***************************************************************************)
(* Bounds of the model.                                                    *)
(***************************************************************************)

\* Most pick_color requests outstanding at once (both roles together).
MaxPicks == 2
\* Most copyHex calls not yet finished at once: the clipboard write or the
\* hide timer of each is still pending.
MaxCopies == 2
\* Most select_icc_profile calls pending at once.
MaxSelects == 1

(***************************************************************************)
(* Program constants.                                                      *)
(***************************************************************************)

\* setTimeout(..., 1500): how long the "Copied!" notification is shown.
CopiedDelay == 1500

\* The clock advances in thirds of the notification delay.
TickMs == CopiedDelay \div 3

\* A contrast ratio in thousandths: Ratio(4, 500) is 4.5.
Ratio(units, thousandths) == units * 1000 + thousandths

(***************************************************************************)
(* The four store versions and their payloads.                             *)
(***************************************************************************)

VariantHex == "store.ts"
VariantUI == "part_000"
VariantRgb == "part_001"
VariantSingle == "part_002"
VariantDom == "main.ts"
Variants == {VariantHex, VariantUI, VariantRgb, VariantSingle, VariantDom}

\* The versions with one colour only: they always call pick_color with
\* fg: true (part_002 line 37, main.ts line 21).
SingleColour == {VariantSingle, VariantDom}

\* The two roles of a colour.
Roles == {"foreground", "background"}

\* A `string | null` side of ColorStore (store.ts lines 37-49).
HexSides == HexSamples \cup {null, ""}

\* continue_mode is carried by every payload and read by no store method:
\* the payloads of the model all carry false.
ContinueModes == {FALSE}

\* ColorStore of store.ts: the payload of get_store and of store-updated.
ColorStorePayloads ==
    [foreground : HexSides, background : HexSides, continue_mode : ContinueModes]

\* RGB tuples a payload or a pick result may carry.
RgbSamples == {<<255, 255, 255>>, <<10, 27, 44>>}

\* ColorStore of part_001 (lines 33-45): both tuples always present.
RgbStorePayloads ==
    [foreground_rgb : RgbSamples, background_rgb : RgbSamples,
     continue_mode : ContinueModes]

\* The colours the backend of part_000 samples in the model, each with its
\* WCAG relative luminance in millionths (the sRGB formula, worked out
\* beforehand): white, #777777, #767676, #959595, #595959, black.
BackendColors ==
    {[rgb |-> <<255, 255, 255>>, luminance |-> 1000000],
     [rgb |-> <<119, 119, 119>>, luminance |-> 184475],
     [rgb |-> <<118, 118, 118>>, luminance |-> 181164],
     [rgb |-> <<149, 149, 149>>, luminance |-> 300544],
     [rgb |-> <<89, 89, 89>>, luminance |-> 99899],
     [rgb |-> <<0, 0, 0>>, luminance |-> 0]}

\* contrastRatio(L1, L2) = (max + 0.05) / (min + 0.05), in thousandths
\* (truncated: comparisons with the thresholds are exact).
contrastRatio(L1, L2) ==
    LET hi == IF L1 >= L2 THEN L1 ELSE L2
        lo == IF L1 >= L2 THEN L2 ELSE L1
    IN  ((hi + 50000) * 1000) \div (lo + 50000)

\* isDarkColor: relative luminance below 0.5.
isDarkColor(c) == c.luminance < 500000

\* The backend rounds the ratio to one decimal place for the payload field
\* contrast_ratio_rounded (half up).
RoundRatio(r) == ((r + 50) \div 100) * 100

\* BackendStore of part_000 (lines 69-103) as the backend builds it from its
\* two colours.
BackendStoreOf(fg, bg, cont) ==
    [platform |-> "macos",
     foreground_rgb |-> fg.rgb,
     foreground_hex |-> rgbToHex(fg.rgb[1], fg.rgb[2], fg.rgb[3]),
     foreground_is_dark |-> isDarkColor(fg),
     background_rgb |-> bg.rgb,
     background_hex |-> rgbToHex(bg.rgb[1], bg.rgb[2], bg.rgb[3]),
     background_is_dark |-> isDarkColor(bg),
     contrast_ratio_rounded |-> RoundRatio(contrastRatio(fg.luminance, bg.luminance)),
     continue_mode |-> cont]

\* A payload together with the true ratio the backend rounded into it.
BackendDeliveries ==
    {[payload |-> BackendStoreOf(fg, bg, cont),
      ratio |-> contrastRatio(fg.luminance, bg.luminance)] :
        fg \in BackendColors, bg \in BackendColors, cont \in ContinueModes}

BackendStorePayloads == {d.payload : d \in BackendDeliveries}

\* ColorResult (store.ts lines 21-33, part_002 lines 4-6) as pick_color
\* resolves it: null when the user cancelled, otherwise a record whose
\* sides are RGB tuples or missing (NoColor).
NoColor == <<>>
NullResult == [isNull |-> TRUE, foreground |-> NoColor, background |-> NoColor]
ColorResults ==
    {NullResult}
        \cup [isNull : {FALSE}, foreground : RgbSamples \cup {NoColor},
              background : {NoColor}]
        \cup [isNull : {FALSE}, foreground : {NoColor}, background : RgbSamples]

(***************************************************************************)
(* Initial stores.                                                         *)
(***************************************************************************)

\* store.ts, colorPickerStore lines 102-129.
colorPickerStore ==
    [isPicking |-> FALSE, resultVisible |-> FALSE,
     foreground |-> "", background |-> "",
     foregroundRgb |-> "", backgroundRgb |-> "",
     copiedVisible |-> FALSE]

\* part_001, colorPickerStore lines 98-125 (the same fields).
colorPickerStoreRgb ==
    [isPicking |-> FALSE, resultVisible |-> FALSE,
     foreground |-> "", background |-> "",
     foregroundRgb |-> "", backgroundRgb |-> "",
     copiedVisible |-> FALSE]

\* part_000, UIStore lines 170-214.
UIStore ==
    [platform |-> "unknown", isPicking |-> FALSE,
     foregroundRgb |-> "", foregroundHex |-> "", foregroundIsDark |-> TRUE,
     backgroundRgb |-> "", backgroundHex |-> "", backgroundIsDark |-> FALSE,
     contrastRatio |-> "xxx:1", currentICCProfile |-> "Auto",
     level143Regular |-> TRUE, level143Large |-> TRUE,
     level146Regular |-> TRUE, level146Large |-> TRUE, level1411 |-> TRUE]

\* part_002, Alpine.store('colorPicker', ...) lines 25-31.
colorPicker ==
    [isPicking |-> FALSE, resultVisible |-> FALSE, hex |-> "", rgb |-> "",
     backgroundColor |-> "", copiedVisible |-> FALSE]

\* main.ts lines 7-12, the elements of the page before the first click, under
\* the names of the store fields that replaced them: isPicking is
\* pickBtn.disabled, resultVisible the class 'visible' of result, hex
\* hexValue.textContent, rgb rgbValue.textContent, backgroundColor
\* colorPreview.style.backgroundColor, copiedVisible the class 'show' of copied.
pageElements ==
    [isPicking |-> FALSE, resultVisible |-> FALSE, hex |-> "", rgb |-> "",
     backgroundColor |-> "", copiedVisible |-> FALSE]

InitialStore(v) ==
    CASE v = VariantHex -> colorPickerStore
      [] v = VariantRgb -> colorPickerStoreRgb
      [] v = VariantUI -> UIStore
      [] v = VariantSingle -> colorPicker
      [] v = VariantDom -> pageElements

(***************************************************************************)
(* Store methods, as functions from the store (this) to the store after.   *)
(***************************************************************************)

\* Mutant of HexUpdateFromTauriStore: no presence test, an absent side is
\* written as empty.
HexUpdateWritesBothSides(this, store) ==
    [this EXCEPT
        !.foreground = IF Truthy(store.foreground) THEN store.foreground ELSE "",
        !.foregroundRgb =
            IF Truthy(store.foreground) THEN hexToRgb(store.foreground) ELSE "",
        !.background = IF Truthy(store.background) THEN store.background ELSE "",
        !.backgroundRgb =
            IF Truthy(store.background) THEN hexToRgb(store.background) ELSE "",
        !.resultVisible = TRUE]

\* Mutant of HexUpdateFromTauriStore: a present side toggles resultVisible
\* instead of setting it.
HexUpdateTogglesVisible(this, store) ==
    LET afterFg ==
            IF Truthy(store.foreground)
            THEN [this EXCEPT !.foreground = store.foreground,
                              !.foregroundRgb = hexToRgb(store.foreground),
                              !.resultVisible = ~this.resultVisible]
            ELSE this
    IN  IF Truthy(store.background)
        THEN [afterFg EXCEPT !.background = store.background,
                             !.backgroundRgb = hexToRgb(store.background),
                             !.resultVisible = ~afterFg.resultVisible]
        ELSE afterFg

\* Mutant of HexUpdateFromTauriStore: resultVisible is recomputed from the
\* payload, so a payload without colours hides the results.
HexUpdateRecomputesVisible(this, store) ==
    [(IF Truthy(store.foreground)
      THEN [this EXCEPT !.foreground = store.foreground,
                        !.foregroundRgb = hexToRgb(store.foreground)]
      ELSE this)
     EXCEPT
        !.background = IF Truthy(store.background) THEN store.background ELSE @,
        !.backgroundRgb =
            IF Truthy(store.background) THEN hexToRgb(store.background) ELSE @,
        !.resultVisible = Truthy(store.foreground) \/ Truthy(store.background)]

\* Mutant of HexUpdateFromTauriStore: a side already shown is not replaced
\* (first applied wins).
HexUpdateKeepsFirst(this, store) ==
    LET afterFg ==
            IF Truthy(store.foreground) /\ this.foreground = ""
            THEN [this EXCEPT !.foreground = store.foreground,
                              !.foregroundRgb = hexToRgb(store.foreground),
                              !.resultVisible = TRUE]
            ELSE this
    IN  IF Truthy(store.background) /\ this.background = ""
        THEN [afterFg EXCEPT !.background = store.background,
                             !.backgroundRgb = hexToRgb(store.background),
                             !.resultVisible = TRUE]
        ELSE afterFg

\* Mutant of HexUpdateFromTauriStore: the results are shown by every update,
\* also by one that carries neither side.
HexUpdateAlwaysShows(this, store) ==
    LET fg == IF Truthy(store.foreground)
              THEN [this EXCEPT !.foreground = store.foreground,
                                !.foregroundRgb = hexToRgb(store.foreground)]
              ELSE this
        bg == IF Truthy(store.background)
              THEN [fg EXCEPT !.background = store.background,
                              !.backgroundRgb = hexToRgb(store.background)]
              ELSE fg
    IN  [bg EXCEPT !.resultVisible = TRUE]

\* store.ts, colorPickerStore.updateFromTauriStore lines 187-219.
HexUpdateFromTauriStore(this, store) ==
    LET afterFg ==
            IF Truthy(store.foreground)
            THEN [this EXCEPT !.foreground = store.foreground,
                              !.foregroundRgb = hexToRgb(store.foreground),
                              !.resultVisible = TRUE]
            ELSE this
    IN  IF Truthy(store.background)
        THEN [afterFg EXCEPT !.background = store.background,
                             !.backgroundRgb = hexToRgb(store.background),
                             !.resultVisible = TRUE]
        ELSE afterFg

\* part_001, colorPickerStore.updateFromTauriStore lines 183-219.
RgbUpdateFromTauriStore(this, store) ==
    LET f == store.foreground_rgb
        b == store.background_rgb
        foregroundHex == "#" \o ChannelHex(f[1]) \o ChannelHex(f[2]) \o ChannelHex(f[3])
        backgroundHex == "#" \o ChannelHex(b[1]) \o ChannelHex(b[2]) \o ChannelHex(b[3])
    IN  [this EXCEPT !.foreground = foregroundHex,
                     !.foregroundRgb = RgbDisplay(f),
                     !.background = backgroundHex,
                     !.backgroundRgb = RgbDisplay(b),
                     !.resultVisible = TRUE]

\* `${x}` of a ratio x given in thousandths: the integer part, then the
\* decimals without trailing zeros.
RatioToString(x) ==
    LET f == x % 1000
        d1 == IntToString(f \div 100, 10)
        d2 == IntToString((f \div 10) % 10, 10)
        d3 == IntToString(f % 10, 10)
    IN  IntToString(x \div 1000, 10) \o
            (IF f = 0 THEN ""
             ELSE IF f % 100 = 0 THEN "." \o d1
             ELSE IF f % 10 = 0 THEN "." \o d1 \o d2
             ELSE "." \o d1 \o d2 \o d3)

\* Mutant of WcagFlags: the stages are chained with else, so only the first
\* stage that applies clears its flags.
WcagFlagsElseIf(x) ==
    LET allTrue == [level143Regular |-> TRUE, level143Large |-> TRUE,
                    level146Regular |-> TRUE, level146Large |-> TRUE,
                    level1411 |-> TRUE]
    IN  IF x < Ratio(3, 0)
        THEN [allTrue EXCEPT !.level143Large = FALSE, !.level1411 = FALSE]
        ELSE IF x < Ratio(4, 500)
        THEN [allTrue EXCEPT !.level143Regular = FALSE, !.level146Large = FALSE]
        ELSE IF x < Ratio(7, 0)
        THEN [allTrue EXCEPT !.level146Regular = FALSE]
        ELSE allTrue

\* Mutant of WcagFlags: the last stage tests x > 3 instead of x < 3.
WcagFlagsWrongSense(x) ==
    [level146Regular |-> x >= Ratio(7, 0),
     level143Regular |-> x >= Ratio(4, 500),
     level146Large |-> x >= Ratio(4, 500),
     level143Large |-> ~(x > Ratio(3, 0)),
     level1411 |-> ~(x > Ratio(3, 0))]

\* Mutant of WcagFlags: the 4.5 stage tests x <= 4.5.
WcagFlagsInclusive(x) ==
    [level146Regular |-> x >= Ratio(7, 0),
     level143Regular |-> x > Ratio(4, 500),
     level146Large |-> x > Ratio(4, 500),
     level143Large |-> x >= Ratio(3, 0),
     level1411 |-> x >= Ratio(3, 0)]

\* Mutant of WcagFlags: the 4.5 stage clears level143Regular only.
WcagFlagsHalfStage(x) ==
    LET allTrue == [level143Regular |-> TRUE, level143Large |-> TRUE,
                    level146Regular |-> TRUE, level146Large |-> TRUE,
                    level1411 |-> TRUE]
        s7 == IF x < Ratio(7, 0)
              THEN [allTrue EXCEPT !.level146Regular = FALSE] ELSE allTrue
        s45 == IF x < Ratio(4, 500)
               THEN [s7 EXCEPT !.level143Regular = FALSE] ELSE s7
    IN  IF x < Ratio(3, 0)
        THEN [s45 EXCEPT !.level143Large = FALSE, !.level1411 = FALSE]
        ELSE s45

\* part_000, the staged threshold checks of lines 281-298 on ratio x.
WcagFlags(x) ==
    LET allTrue == [level143Regular |-> TRUE, level143Large |-> TRUE,
                    level146Regular |-> TRUE, level146Large |-> TRUE,
                    level1411 |-> TRUE]
        s7 == IF x < Ratio(7, 0)
              THEN [allTrue EXCEPT !.level146Regular = FALSE] ELSE allTrue
        s45 == IF x < Ratio(4, 500)
               THEN [s7 EXCEPT !.level143Regular = FALSE, !.level146Large = FALSE]
               ELSE s7
    IN  IF x < Ratio(3, 0)
        THEN [s45 EXCEPT !.level143Large = FALSE, !.level1411 = FALSE]
        ELSE s45

\* Mutant of UIUpdateFromTauriStore: the flags are only ever cleared, the
\* reset to true of lines 282-286 is missing.
UIUpdateOnlyClears(this, store) ==
    LET flags == WcagFlags(store.contrast_ratio_rounded)
    IN  [this EXCEPT !.platform = store.platform,
                     !.foregroundRgb = RgbDisplay(store.foreground_rgb),
                     !.foregroundHex = store.foreground_hex,
                     !.foregroundIsDark = store.foreground_is_dark,
                     !.backgroundRgb = RgbDisplay(store.background_rgb),
                     !.backgroundHex = store.background_hex,
                     !.backgroundIsDark = store.background_is_dark,
                     !.contrastRatio =
                         RatioToString(store.contrast_ratio_rounded) \o ":1",
                     !.level143Regular = @ /\ flags.level143Regular,
                     !.level143Large = @ /\ flags.level143Large,
                     !.level146Regular = @ /\ flags.level146Regular,
                     !.level146Large = @ /\ flags.level146Large,
                     !.level1411 = @ /\ flags.level1411]

\* part_000, UIStore.updateFromTauriStore lines 244-299.
UIUpdateFromTauriStore(this, store) ==
    LET flags == WcagFlags(store.contrast_ratio_rounded)
    IN  [this EXCEPT !.platform = store.platform,
                     !.foregroundRgb = RgbDisplay(store.foreground_rgb),
                     !.foregroundHex = store.foreground_hex,
                     !.foregroundIsDark = store.foreground_is_dark,
                     !.backgroundRgb = RgbDisplay(store.background_rgb),
                     !.backgroundHex = store.background_hex,
                     !.backgroundIsDark = store.background_is_dark,
                     !.contrastRatio =
                         RatioToString(store.contrast_ratio_rounded) \o ":1",
                     !.level143Regular = flags.level143Regular,
                     !.level143Large = flags.level143Large,
                     !.level146Regular = flags.level146Regular,
                     !.level146Large = flags.level146Large,
                     !.level1411 = flags.level1411]

\* pickColor up to its await: this.isPicking = true
\* (store.ts line 136, part_000 line 221, part_001 line 132, part_002 line 34).
PickColorBegin(this) == [this EXCEPT !.isPicking = TRUE]

\* Mutant of PickColorFinally: the busy flag is not cleared.
PickColorFinallyMissing(this) == this

\* Mutant of PickColorFinally: the busy flag is set again instead of cleared.
PickColorFinallyStaysBusy(this) == [this EXCEPT !.isPicking = TRUE]

\* pickColor's finally block: this.isPicking = false
\* (store.ts line 153, part_000 line 238, part_001 line 149, part_002 line 51).
PickColorFinally(this) == [this EXCEPT !.isPicking = FALSE]

\* Mutant of PickColorThen: a result without a sample resets what is shown.
PickColorThenResetsOnNull(v, this, color) ==
    IF v = VariantSingle
    THEN IF ~color.isNull /\ color.foreground # NoColor
         THEN LET c == color.foreground
                  hex == rgbToHex(c[1], c[2], c[3])
              IN  [this EXCEPT !.hex = hex, !.rgb = RgbDisplay(c),
                               !.backgroundColor = hex, !.resultVisible = TRUE]
         ELSE [this EXCEPT !.hex = "", !.rgb = "", !.backgroundColor = "",
                           !.resultVisible = FALSE]
    ELSE this

\* Mutant of PickColorThen: every version shows the results as soon as the
\* pick resolves with a sample, as part_002 does.
PickColorThenShows(v, this, color) ==
    IF color.isNull THEN this
    ELSE IF v \in SingleColour
         THEN IF color.foreground # NoColor
              THEN LET c == color.foreground
                       hex == rgbToHex(c[1], c[2], c[3])
                   IN  [this EXCEPT !.hex = hex, !.rgb = RgbDisplay(c),
                                    !.backgroundColor = hex, !.resultVisible = TRUE]
              ELSE this
         ELSE IF v = VariantUI THEN [this EXCEPT !.contrastRatio = "1:1"]
         ELSE [this EXCEPT !.resultVisible = TRUE]

\* What pickColor does with the resolved value before its finally block:
\* nothing in the three stores fed by store-updated (store.ts line 145,
\* part_000 line 230, part_001 line 141); part_002 lines 37-47 and main.ts
\* lines 21-33 write the sampled colour when `color && color.foreground`.
PickColorThen(v, this, color) ==
    IF v \in SingleColour /\ ~color.isNull /\ color.foreground # NoColor
    THEN LET c == color.foreground
             hex == rgbToHex(c[1], c[2], c[3])
         IN  [this EXCEPT !.hex = hex, !.rgb = RgbDisplay(c),
                          !.backgroundColor = hex, !.resultVisible = TRUE]
    ELSE this

\* copyHex after a successful clipboard write: this.copiedVisible = true
\* (store.ts line 171, part_001 line 167, part_002 line 58).
CopyHexThen(this) == [this EXCEPT !.copiedVisible = TRUE]

\* The setTimeout callback of copyHex: this.copiedVisible = false
\* (store.ts lines 175-177, part_001 lines 171-173, part_002 lines 59-61).
CopiedTimeout(this) == [this EXCEPT !.copiedVisible = FALSE]

\* The payloads the backend of each version delivers.
Payloads(v) ==
    CASE v = VariantHex -> ColorStorePayloads
      [] v = VariantRgb -> RgbStorePayloads
      [] v = VariantUI -> BackendStorePayloads
      [] v \in SingleColour -> {}

\* alpineStore.updateFromTauriStore(payload) on the registered store.
updateFromTauriStore(v, this, store) ==
    CASE v = VariantHex -> HexUpdateFromTauriStore(this, store)
      [] v = VariantRgb -> RgbUpdateFromTauriStore(this, store)
      [] v = VariantUI -> UIUpdateFromTauriStore(this, store)
      [] v \in SingleColour -> this

(***************************************************************************)
(* State.                                                                  *)
(***************************************************************************)

VARIABLES
    variant,       \* which of the four store versions this behaviour runs
    store,         \* the Alpine store object (this)
    inflight,      \* fg |-> number of pick_color(fg) calls not yet settled
    pc,            \* position of the startup IIFE
    clipPending,   \* clipboard.writeText calls not yet settled
    timers,        \* ms left of each pending setTimeout callback, oldest first
    backendRatio,  \* true ratio behind the last applied BackendStore (0: none)
    applied,       \* history: per role, <<value>> carried by the last applied
                   \* payload in which the role was present (<<>>: none yet)
    icc,           \* ICC profile steps of the startup IIFE, the backend's
                   \* selected profile and the pending select_icc_profile
                   \* calls: [pc, selected, fetched, selecting]
    behind,        \* <<payload>> of the last store-updated event emitted while
                   \* no listener was registered, until a payload is applied
    last           \* history: the settlement or update that was the last step,
                   \* <<operation, argument>>, or Other

vars ==
    <<variant, store, inflight, pc, clipPending, timers, backendRatio, applied,
      icc, behind, last>>

\* The versions with a startup IIFE calling get_store and listening to
\* store-updated (store.ts lines 263-296, part_002 lines 112-146).
HasStartup(v) == v \notin SingleColour

\* The versions whose store has copyHex (part_000's UIStore has none).
HasCopyHex(v) == v # VariantUI

Init ==
    /\ variant \in Variants
    /\ store = InitialStore(variant)
    /\ inflight = [fg \in BOOLEAN |-> 0]
    /\ pc = IF HasStartup(variant) THEN "get_store" ELSE "none"
    /\ clipPending = 0
    /\ timers = <<>>
    /\ backendRatio = 0
    /\ applied = [role \in Roles |-> <<>>]
    /\ icc = [pc |-> "off", selected |-> null, fetched |-> null,
              selecting |-> <<>>]
    /\ behind = <<>>
    /\ last = <<"init", "-">>

\* The payloads of the versions without a ratio, as deliveries of ratio 0.
HexDeliveries == {[payload |-> p, ratio |-> 0] : p \in ColorStorePayloads}
RgbDeliveries == {[payload |-> p, ratio |-> 0] : p \in RgbStorePayloads}

\* What get_store and store-updated can deliver to each version's store.
Deliveries(v) ==
    CASE v = VariantHex -> HexDeliveries
      [] v = VariantRgb -> RgbDeliveries
      [] v = VariantUI -> BackendDeliveries
      [] v \in SingleColour -> {}

\* The value a payload carries for a role, <<value>>, or <<>> when the role is
\* absent from it: the hex string (store.ts), the RGB tuple (part_001), the
\* RGB tuple with its hex string (part_000).
Carried(v, payload, role) ==
    CASE v = VariantHex ->
             IF Truthy(payload[role]) THEN <<payload[role]>> ELSE <<>>
      [] v = VariantRgb ->
             IF role = "foreground" THEN <<payload.foreground_rgb>>
             ELSE <<payload.background_rgb>>
      [] v = VariantUI ->
             IF role = "foreground"
             THEN <<[rgb |-> payload.foreground_rgb, hex |-> payload.foreground_hex]>>
             ELSE <<[rgb |-> payload.background_rgb, hex |-> payload.background_hex]>>
      [] v \in SingleColour -> <<>>

\* The history of carried values after payload was applied.
AppliedAfter(v, before, payload) ==
    [role \in Roles |->
        IF Carried(v, payload, role) # <<>> THEN Carried(v, payload, role)
        ELSE before[role]]

\* The history value left by a step no property needs to recognise.
Other == <<"-", "-">>

\* Which sides of a payload are present (truthy), for the history variable.
Sides(v, payload) ==
    IF v = VariantHex
    THEN CASE Truthy(payload.foreground) /\ Truthy(payload.background) -> "both"
           [] Truthy(payload.foreground) /\ ~Truthy(payload.background) -> "fg"
           [] ~Truthy(payload.foreground) /\ Truthy(payload.background) -> "bg"
           [] OTHER -> "neither"
    ELSE "both"

\* How a pick_color result reads for the role that asked: cancelled (null,
\* or no sample for that role) or a sample.
Outcome(fg, color) ==
    IF color.isNull \/ (IF fg THEN color.foreground ELSE color.background) = NoColor
    THEN "pick:null" ELSE "pick:sample"

(***************************************************************************)
(* Startup IIFE and the store-updated listener.                            *)
(***************************************************************************)

\* Step 1, get_store resolves: updateFromTauriStore(initialStore).
GetStoreResolve(d) ==
    /\ pc = "get_store"
    /\ store' = updateFromTauriStore(variant, store, d.payload)
    /\ backendRatio' = d.ratio
    /\ applied' = AppliedAfter(variant, applied, d.payload)
    /\ behind' = <<>>
    /\ pc' = "listen"
    /\ last' = <<"update", Sides(variant, d.payload)>>
    /\ UNCHANGED <<variant, inflight, clipPending, timers, icc>>

\* Mutant of GetStoreReject: the rejection is not caught and ends the IIFE.
GetStoreRejectAborts ==
    /\ pc = "get_store"
    /\ pc' = "aborted"
    /\ last' = <<"get_store:error", "-">>
    /\ UNCHANGED <<variant, store, inflight, clipPending, timers,
                   backendRatio, applied, icc, behind>>

\* Step 1, get_store rejects: the catch block logs, the store is untouched.
GetStoreReject ==
    /\ pc = "get_store"
    /\ pc' = "listen"
    /\ last' = <<"get_store:error", "-">>
    /\ UNCHANGED <<variant, store, inflight, clipPending, timers,
                   backendRatio, applied, icc, behind>>

\* Step 2, await listen('store-updated', ...) resolves: the listener is on.
ListenRegistered ==
    /\ pc = "listen"
    /\ pc' = "listening"
    /\ last' = Other
    /\ UNCHANGED <<variant, store, inflight, clipPending, timers,
                   backendRatio, applied, icc, behind>>

\* The store-updated listener runs on a pushed payload.
StoreUpdated(d) ==
    /\ pc = "listening"
    /\ store' = updateFromTauriStore(variant, store, d.payload)
    /\ backendRatio' = d.ratio
    /\ applied' = AppliedAfter(variant, applied, d.payload)
    /\ behind' = <<>>
    /\ last' = <<"update", Sides(variant, d.payload)>>
    /\ UNCHANGED <<variant, inflight, pc, clipPending, timers, icc>>

(***************************************************************************)
(* pickColor.                                                              *)
(***************************************************************************)

Outstanding == inflight[TRUE] + inflight[FALSE]

\* pickColor(fg) runs to its await: busy flag set, pick_color(fg) issued.
\* In main.ts the button is disabled while a pick is in flight (line 15), and
\* a disabled button receives no click.
PickColor(fg) ==
    /\ variant \in SingleColour => fg
    /\ variant = VariantDom => ~store.isPicking
    /\ Outstanding < MaxPicks
    /\ store' = PickColorBegin(store)
    /\ inflight' = [inflight EXCEPT ![fg] = @ + 1]
    /\ last' = Other
    /\ UNCHANGED <<variant, pc, clipPending, timers, backendRatio, applied,
                   icc, behind>>

\* pick_color(fg) resolves with color (null: cancelled): try body, finally.
PickResolve(fg, color) ==
    /\ inflight[fg] > 0
    /\ store' = PickColorFinally(PickColorThen(variant, store, color))
    /\ inflight' = [inflight EXCEPT ![fg] = @ - 1]
    /\ last' = <<Outcome(fg, color), "-">>
    /\ UNCHANGED <<variant, pc, clipPending, timers, backendRatio, applied,
                   icc, behind>>

\* Mutant of PickReject: the error path does not reach the finally block.
PickRejectSkipsFinally(fg) ==
    /\ inflight[fg] > 0
    /\ inflight' = [inflight EXCEPT ![fg] = @ - 1]
    /\ last' = <<"pick:error", "-">>
    /\ UNCHANGED <<variant, store, pc, clipPending, timers, backendRatio,
                   applied, icc, behind>>

\* pick_color(fg) rejects: catch logs, finally.
PickReject(fg) ==
    /\ inflight[fg] > 0
    /\ store' = PickColorFinally(store)
    /\ inflight' = [inflight EXCEPT ![fg] = @ - 1]
    /\ last' = <<"pick:error", "-">>
    /\ UNCHANGED <<variant, pc, clipPending, timers, backendRatio, applied,
                   icc, behind>>

(***************************************************************************)
(* copyHex and its timer.  The clipboard itself is outside the store; only *)
(* the outcome of writeText is modelled.                                   *)
(***************************************************************************)

\* copyHex(isForeground) runs to its await: writeText(hex) issued.
CopyHex(isForeground) ==
    /\ HasCopyHex(variant)
    /\ variant \in SingleColour => isForeground
    /\ clipPending + Len(timers) < MaxCopies
    /\ clipPending' = clipPending + 1
    /\ last' = Other
    /\ UNCHANGED <<variant, store, inflight, pc, timers, backendRatio,
                   applied, icc, behind>>

\* writeText resolves: notification shown, setTimeout(hide, 1500).
ClipboardResolve ==
    /\ clipPending > 0
    /\ clipPending' = clipPending - 1
    /\ store' = CopyHexThen(store)
    /\ timers' = Append(timers, CopiedDelay)
    /\ last' = <<"clipboard:ok", "-">>
    /\ UNCHANGED <<variant, inflight, pc, backendRatio, applied, icc, behind>>

\* Mutant of ClipboardReject: the notification is shown, and its hide timer
\* started, whatever the outcome of writeText.
ClipboardRejectShows ==
    /\ clipPending > 0
    /\ clipPending' = clipPending - 1
    /\ store' = CopyHexThen(store)
    /\ timers' = Append(timers, CopiedDelay)
    /\ last' = <<"clipboard:error", "-">>
    /\ UNCHANGED <<variant, inflight, pc, backendRatio, applied, icc, behind>>

\* writeText rejects: the catch block logs.
ClipboardReject ==
    /\ clipPending > 0
    /\ clipPending' = clipPending - 1
    /\ last' = <<"clipboard:error", "-">>
    /\ UNCHANGED <<variant, store, inflight, pc, timers, backendRatio,
                   applied, icc, behind>>

\* The oldest hide timer fires, not before its delay has passed.
TimerFire ==
    /\ timers # <<>>
    /\ Head(timers) = 0
    /\ store' = CopiedTimeout(store)
    /\ timers' = Tail(timers)
    /\ last' = Other
    /\ UNCHANGED <<variant, inflight, pc, clipPending, backendRatio, applied,
                   icc, behind>>

\* TickMs pass while a timer is still running.
Tick ==
    /\ \E i \in 1..Len(timers) : timers[i] > 0
    /\ timers' = [i \in 1..Len(timers) |->
                     IF timers[i] > TickMs THEN timers[i] - TickMs ELSE 0]
    /\ last' = Other
    /\ UNCHANGED <<variant, store, inflight, pc, clipPending, backendRatio,
                   applied, icc, behind>>

Next ==
    \/ \E d \in Deliveries(variant) : GetStoreResolve(d)
    \/ GetStoreReject
    \/ ListenRegistered
    \/ \E d \in Deliveries(variant) : StoreUpdated(d)
    \/ \E fg \in BOOLEAN : PickColor(fg)
    \/ \E fg \in BOOLEAN, color \in ColorResults : PickResolve(fg, color)
    \/ \E fg \in BOOLEAN : PickReject(fg)
    \/ \E isForeground \in BOOLEAN : CopyHex(isForeground)
    \/ ClipboardResolve
    \/ ClipboardReject
    \/ TimerFire
    \/ Tick

Spec == Init /\ [][Next]_vars

(***************************************************************************)
(* Steps 3 and 4 of the startup IIFE (store.ts lines 300-336): the         *)
(* icc-profile-changed listener and the initial get_selected_icc_profile.  *)
(* They act on Alpine.store('uiStore'), the UIStore of part_000.           *)
(* icc.pc is "off" until the listener of step 3 is registered, "fetch"     *)
(* once get_selected_icc_profile has been invoked, "reply" while its       *)
(* answer travels to the page, "done" after step 4.  icc.selected is the   *)
(* profile selected in the backend (null: none), icc.fetched the answer    *)
(* the backend gave to get_selected_icc_profile, icc.selecting the         *)
(* profile names of the select_icc_profile calls not yet settled.          *)
(***************************************************************************)

\* The profile names the menu of the backend offers.
ProfileNames == {"sRGB IEC61966-2.1", "Display P3"}

\* Step 3, await listen('icc-profile-changed', ...) resolves; step 4 then
\* invokes get_selected_icc_profile (line 324).
IccListenRegistered ==
    /\ variant = VariantUI
    /\ pc = "listening"
    /\ icc.pc = "off"
    /\ icc' = [icc EXCEPT !.pc = "fetch"]
    /\ last' = Other
    /\ UNCHANGED <<variant, store, inflight, pc, clipPending, timers,
                   backendRatio, applied, behind>>

\* Mutant of IccProfileChanged: the handler also blanks the contrast ratio.
IccProfileChangedBlanksRatio(p) ==
    /\ variant = VariantUI
    /\ icc' = [icc EXCEPT !.selected = p]
    /\ IF icc.pc # "off"
       THEN /\ store' = [store EXCEPT !.currentICCProfile = p,
                                      !.contrastRatio = ""]
            /\ last' = <<"icc", "event">>
       ELSE /\ store' = store
            /\ last' = Other
    /\ UNCHANGED <<variant, inflight, pc, clipPending, timers, backendRatio,
                   applied, behind>>

\* The user selects profile p in the menu and the backend emits
\* icc-profile-changed(p).  With the listener on, its handler runs:
\* alpineStore.currentICCProfile = profileName (lines 304-315).  Without a
\* listener the event reaches nobody.
IccProfileChanged(p) ==
    /\ variant = VariantUI
    /\ icc' = [icc EXCEPT !.selected = p]
    /\ IF icc.pc # "off"
       THEN /\ store' = [store EXCEPT !.currentICCProfile = p]
            /\ last' = <<"icc", "event">>
       ELSE /\ store' = store
            /\ last' = Other
    /\ UNCHANGED <<variant, inflight, pc, clipPending, timers, backendRatio,
                   applied, behind>>

\* The backend answers get_selected_icc_profile with its selection.
IccFetchRead ==
    /\ icc.pc = "fetch"
    /\ icc' = [icc EXCEPT !.pc = "reply", !.fetched = icc.selected]
    /\ last' = Other
    /\ UNCHANGED <<variant, store, inflight, pc, clipPending, timers,
                   backendRatio, applied, behind>>

\* Step 4, the invoke resolves:
\* alpineStore.currentICCProfile = currentProfile || 'Auto' (line 331).
IccFetchResolve ==
    /\ icc.pc = "reply"
    /\ store' = [store EXCEPT !.currentICCProfile =
                     IF Truthy(icc.fetched) THEN icc.fetched ELSE "Auto"]
    /\ icc' = [icc EXCEPT !.pc = "done"]
    /\ last' = <<"icc", "fetch">>
    /\ UNCHANGED <<variant, inflight, pc, clipPending, timers, backendRatio,
                   applied, behind>>

\* Step 4, the invoke rejects: the catch block logs (lines 332-336).
IccFetchReject ==
    /\ icc.pc = "fetch"
    /\ icc' = [icc EXCEPT !.pc = "done"]
    /\ last' = Other
    /\ UNCHANGED <<variant, store, inflight, pc, clipPending, timers,
                   backendRatio, applied, behind>>

\* The strings selectICCProfile is called with: the names of the menu, a
\* name the backend does not know, the empty string.
SelectNames == ProfileNames \cup {"any name", ""}

\* A sequence without its i-th element.
RemoveAt(seq, i) == SubSeq(seq, 1, i - 1) \o SubSeq(seq, i + 1, Len(seq))

\* selectICCProfile(profileName) (part_003 lines 25-27) runs to its await:
\* select_icc_profile is invoked, the store is not touched.
SelectICCProfile(profileName) ==
    /\ variant = VariantUI
    /\ Len(icc.selecting) < MaxSelects
    /\ icc' = [icc EXCEPT !.selecting = Append(@, profileName)]
    /\ last' = Other
    /\ UNCHANGED <<variant, store, inflight, pc, clipPending, timers,
                   backendRatio, applied, behind>>

\* The backend takes the i-th pending selection and the invoke resolves:
\* selectICCProfile returns, writing nothing.  Whether the backend emits
\* icc-profile-changed for a selection made by command is its choice
\* (emits); when it does and the listener is on, the handler runs.
SelectICCProfileResolve(i, emits) ==
    /\ i \in 1..Len(icc.selecting)
    /\ icc' = [icc EXCEPT !.selected = icc.selecting[i],
                          !.selecting = RemoveAt(@, i)]
    /\ IF emits /\ icc.pc # "off"
       THEN /\ store' = [store EXCEPT !.currentICCProfile = icc.selecting[i]]
            /\ last' = <<"icc", "event">>
       ELSE /\ store' = store
            /\ last' = Other
    /\ UNCHANGED <<variant, inflight, pc, clipPending, timers, backendRatio,
                   applied, behind>>

\* The backend refuses the i-th pending selection: the invoke rejects, the
\* rejection propagates to the caller of selectICCProfile.
SelectICCProfileReject(i) ==
    /\ i \in 1..Len(icc.selecting)
    /\ icc' = [icc EXCEPT !.selecting = RemoveAt(@, i)]
    /\ last' = Other
    /\ UNCHANGED <<variant, store, inflight, pc, clipPending, timers,
                   backendRatio, applied, behind>>

\* The UIStore with the whole startup IIFE: the steps that can occur in
\* part_000 (its store has no copyHex) and the ICC steps.
IccInit == Init /\ variant = VariantUI

\* The payloads of the ICC steps' specification: white on black and black
\* on white (the profile steps read nothing of a payload).
IccDeliveries ==
    {d \in BackendDeliveries :
        /\ d.payload.foreground_hex \in {"#FFFFFF", "#000000"}
        /\ d.payload.background_hex \in {"#FFFFFF", "#000000"}
        /\ d.payload.foreground_hex # d.payload.background_hex}

IccNext ==
    \/ \E d \in IccDeliveries : GetStoreResolve(d)
    \/ GetStoreReject
    \/ ListenRegistered
    \/ \E d \in IccDeliveries : StoreUpdated(d)
    \/ \E fg \in BOOLEAN : PickColor(fg)
    \/ \E fg \in BOOLEAN, color \in ColorResults : PickResolve(fg, color)
    \/ \E fg \in BOOLEAN : PickReject(fg)
    \/ IccListenRegistered
    \/ \E p \in ProfileNames : IccProfileChanged(p)
    \/ IccFetchRead
    \/ IccFetchResolve
    \/ IccFetchReject
    \/ \E profileName \in SelectNames : SelectICCProfile(profileName)
    \/ \E i \in 1..MaxSelects, emits \in BOOLEAN : SelectICCProfileResolve(i, emits)
    \/ \E i \in 1..MaxSelects : SelectICCProfileReject(i)

IccSpec == IccInit /\ [][IccNext]_vars

(***************************************************************************)
(* Pushes emitted while no store-updated listener is registered.           *)
(***************************************************************************)

\* The backend emits store-updated after it answered get_store and before
\* `await listen('store-updated', ...)` (store.ts line 286) has resolved: no
\* handler is registered, nothing runs in the page.  The payload is kept in
\* behind until some payload is applied.
PushDropped(d) ==
    /\ pc = "listen"
    /\ last[1] \in {"update", "push:dropped"}
    /\ behind' = <<d.payload>>
    /\ last' = <<"push:dropped", "-">>
    /\ UNCHANGED <<variant, store, inflight, pc, clipPending, timers,
                   backendRatio, applied, icc>>

\* The startup sequence of the backend-fed stores interleaved with pushes.
StartupInit == Init /\ HasStartup(variant)

StartupNext ==
    \/ \E d \in Deliveries(variant) : GetStoreResolve(d)
    \/ GetStoreReject
    \/ ListenRegistered
    \/ \E d \in Deliveries(variant) : StoreUpdated(d)
    \/ \E d \in Deliveries(variant) : PushDropped(d)

StartupSpec == StartupInit /\ [][StartupNext]_vars

(***************************************************************************)
(* Vocabulary of the properties.                                           *)
(***************************************************************************)

\* The versions whose store has resultVisible (part_000's UIStore has none).
HasResultVisible(v) == v # VariantUI

\* The hex field and the RGB display field of a role in store st.
SideFields(v, st, role) ==
    CASE v \in {VariantHex, VariantRgb} ->
             IF role = "foreground" THEN <<st.foreground, st.foregroundRgb>>
             ELSE <<st.background, st.backgroundRgb>>
      [] v = VariantUI ->
             IF role = "foreground" THEN <<st.foregroundHex, st.foregroundRgb>>
             ELSE <<st.backgroundHex, st.backgroundRgb>>
      [] v \in SingleColour ->
             IF role = "foreground" THEN <<st.hex, st.rgb>> ELSE <<"", "">>

\* A role is absent from a payload: only the hex payload of store.ts has
\* sides that can be null (or empty); the other payloads carry both tuples.
SideAbsent(v, payload, role) == v = VariantHex /\ ~Truthy(payload[role])

\* Everything a store shows of the colours: all its fields but the two
\* transient flags isPicking and copiedVisible.
ColourState(v, st) ==
    IF v = VariantUI THEN [st EXCEPT !.isPicking = FALSE]
    ELSE [st EXCEPT !.isPicking = FALSE, !.copiedVisible = FALSE]

\* h is a well-formed #RRGGBB string of either letter case.
IsHex6(h) ==
    /\ Len(h) = 7
    /\ CharAt(h, 1) = "#"
    /\ \A i \in 2..7 : IsHexDigit(CharAt(h, i))

\* The byte written by the two hex digits of h at positions i, i + 1.
ByteAt(h, i) == 16 * HexDigitValue(CharAt(h, i)) + HexDigitValue(CharAt(h, i + 1))

\* The five flags of store st as the thresholds give them for ratio r.
FlagsMatch(st, r) ==
    /\ st.level146Regular = (r >= Ratio(7, 0))
    /\ st.level143Regular = (r >= Ratio(4, 500))
    /\ st.level146Large = (r >= Ratio(4, 500))
    /\ st.level143Large = (r >= Ratio(3, 0))
    /\ st.level1411 = (r >= Ratio(3, 0))

(***************************************************************************)
(* C1.  updateFromTauriStore leaves the hex and RGB display fields of a    *)
(* side that is absent from the payload exactly as they were, in every     *)
(* reachable store and for every payload.                                  *)
(***************************************************************************)
C1_AbsentSideUntouched ==
    \A d \in Deliveries(variant), role \in Roles :
        SideAbsent(variant, d.payload, role) =>
            SideFields(variant, updateFromTauriStore(variant, store, d.payload), role)
                = SideFields(variant, store, role)

\* A foreground-only payload was just applied and the background shown
\* before it is still shown.
C1_Witness ==
    /\ variant = VariantHex
    /\ last = <<"update", "fg">>
    /\ store.foreground = "#FFFFFF"
    /\ store.background = "#0a1B2c"
    /\ store.backgroundRgb = "10, 27, 44"

(***************************************************************************)
(* C2.  Each flag published by the update equals (true ratio >= its        *)
(* threshold), the true ratio being the unrounded one of the backend.      *)
(***************************************************************************)
C2_FlagsUseUnroundedRatio ==
    (variant = VariantUI /\ backendRatio # 0) => FlagsMatch(store, backendRatio)

(***************************************************************************)
(* C3.  The completion of one role's pick never clears the busy            *)
(* indication while the other role's pick is still in flight.              *)
(***************************************************************************)
C3_OtherRoleStaysBusy ==
    [][\A fg \in BOOLEAN :
          (/\ inflight'[fg] < inflight[fg]
           /\ inflight[~fg] > 0
           /\ inflight'[~fg] = inflight[~fg]
           /\ store.isPicking)
          => store'.isPicking]_vars

(***************************************************************************)
(* C4.  At most one pick_color request per role is outstanding.            *)
(***************************************************************************)
C4_OneRequestPerRole == \A fg \in BOOLEAN : inflight[fg] <= 1

(***************************************************************************)
(* C5.  A pick that resolves to null for the requested role changes no     *)
(* colour field (displayed values, resultVisible) and leaves isPicking     *)
(* false.                                                                  *)
(***************************************************************************)
C5_NullPickIsNoOp ==
    [][last' = <<"pick:null", "-">> =>
          /\ ColourState(variant, store') = ColourState(variant, store)
          /\ ~store'.isPicking]_vars

\* A pick was just cancelled while a sampled colour is on display.
C5_Witness ==
    /\ last = <<"pick:null", "-">>
    /\ variant = VariantSingle
    /\ store.hex = "#0A1B2C"
    /\ store.resultVisible
    /\ ~store.isPicking

(***************************************************************************)
(* C6.  A pick whose backend call rejects clears isPicking, changes no     *)
(* other field of the store, and issues no new request.                    *)
(***************************************************************************)
C6_FailedPickKeepsState ==
    [][last' = <<"pick:error", "-">> =>
          /\ store' = [store EXCEPT !.isPicking = FALSE]
          /\ Outstanding' = Outstanding - 1
          /\ \A fg \in BOOLEAN : inflight'[fg] <= inflight[fg]]_vars

\* A pick just failed while colours are on display.
C6_Witness ==
    /\ last = <<"pick:error", "-">>
    /\ variant = VariantHex
    /\ store.foreground = "#FFFFFF"
    /\ store.resultVisible
    /\ ~store.isPicking

(***************************************************************************)
(* C7.  updateFromTauriStore is idempotent: applying a payload a second    *)
(* time leaves the store as the first application left it.                 *)
(***************************************************************************)
C7_UpdateIdempotent ==
    \A d \in Deliveries(variant) :
        LET once == updateFromTauriStore(variant, store, d.payload)
        IN  updateFromTauriStore(variant, once, d.payload) = once

\* A payload was just applied on top of colours already shown.
C7_Witness ==
    /\ last = <<"update", "bg">>
    /\ variant = VariantHex
    /\ store.foreground # ""
    /\ store.background # ""

(***************************************************************************)
(* C8.  copiedVisible never turns false before the full delay has passed   *)
(* since the most recent successful copy (whose timer is the newest one).  *)
(***************************************************************************)
C8_NoEarlyHide ==
    [][(/\ HasCopyHex(variant)
        /\ store.copiedVisible
        /\ ~store'.copiedVisible)
       => (timers # <<>> /\ timers[Len(timers)] = 0)]_vars

(***************************************************************************)
(* C9.  resultVisible is monotonic: once true, no step makes it false.     *)
(***************************************************************************)
C9_ResultVisibleMonotonic ==
    [][(HasResultVisible(variant) /\ store.resultVisible)
       => store'.resultVisible]_vars

\* A payload with neither side present was just applied and the results
\* are still visible.
C9_Witness ==
    /\ variant = VariantHex
    /\ last = <<"update", "neither">>
    /\ store.resultVisible

(***************************************************************************)
(* C10.  For each role the stored hex string and the stored RGB display    *)
(* string denote the same colour: both are empty, or the hex string is a   *)
(* #RRGGBB value and the RGB string is the decimal rendering of its bytes. *)
(***************************************************************************)
C10_HexAndRgbAgree ==
    \A role \in Roles :
        LET hex == SideFields(variant, store, role)[1]
            rgb == SideFields(variant, store, role)[2]
        IN  \/ hex = "" /\ rgb = ""
            \/ /\ IsHex6(hex)
               /\ rgb = RgbDisplay(<<ByteAt(hex, 2), ByteAt(hex, 4), ByteAt(hex, 6)>>)

\* What a store of version v shows, <<hex field, RGB field>>, for a carried
\* value.
Shown(v, value) ==
    CASE v = VariantHex -> <<value, hexToRgb(value)>>
      [] v = VariantRgb ->
             <<rgbToHex(value[1], value[2], value[3]), RgbDisplay(value)>>
      [] v = VariantUI -> <<value.hex, RgbDisplay(value.rgb)>>

(***************************************************************************)
(* C11.  Last applied wins: after the startup snapshot and any sequence of *)
(* store-updated pushes, each role shows the value carried by the last     *)
(* applied payload in which that role was present.                         *)
(***************************************************************************)
C11_LastAppliedWins ==
    \A role \in Roles :
        applied[role] # <<>> =>
            SideFields(variant, store, role) = Shown(variant, applied[role][1])

\* A foreground-only payload was just applied over an earlier foreground and
\* an earlier background: the new foreground and the old background show.
C11_Witness ==
    /\ variant = VariantHex
    /\ pc = "listening"
    /\ last = <<"update", "fg">>
    /\ applied["foreground"] = <<"#0a1B2c">>
    /\ applied["background"] = <<"#FFFFFF">>
    /\ store.foreground = "#0a1B2c"
    /\ store.background = "#FFFFFF"

(***************************************************************************)
(* C12.  isPicking is true only during an in-flight pick: in every         *)
(* reachable state isPicking implies that some pick_color request has been *)
(* issued and has not settled (initially none has, and isPicking is        *)
(* false).                                                                 *)
(***************************************************************************)
C12_BusyOnlyWhileInFlight == store.isPicking => Outstanding > 0

\* A pick is in flight and shown as such.
C12_Witness ==
    /\ variant = VariantUI
    /\ store.isPicking
    /\ inflight[FALSE] = 1
    /\ inflight[TRUE] = 0

\* The settlements of a pick_color request, as the history variable names
\* them.
PickSettlements == {"pick:sample", "pick:null", "pick:error"}

(***************************************************************************)
(* C13.  Every pick converges back to Idle: right after a pick_color       *)
(* request settled, with a sample, null or an error, isPicking is false,   *)
(* and whenever no request is outstanding isPicking is false.              *)
(***************************************************************************)
C13_SettledPickIsIdle ==
    /\ last[1] \in PickSettlements => ~store.isPicking
    /\ Outstanding = 0 => ~store.isPicking

\* The only pick of the page script just failed: the button is enabled again.
C13_Witness ==
    /\ variant = VariantDom
    /\ last = <<"pick:error", "-">>
    /\ Outstanding = 0
    /\ ~store.isPicking

(***************************************************************************)
(* The threshold checks of part_000 as a function of the ratio alone: the  *)
(* UIStore is fed payloads that carry each ratio of a grid over [1, 21],   *)
(* first as the startup snapshot, then as store-updated pushes.            *)
(***************************************************************************)

\* Ratios from 1 to 21, in thousandths: quarter steps and the nearest
\* neighbours of every whole and half ratio (2.999, 3, 3.001, 4.499, 4.5,
\* 4.501, 6.999, 7, 7.001 among them).
RatioGrid ==
    {Ratio(u, t) : u \in 1..20, t \in {0, 1, 250, 499, 500, 501, 750, 999}}
        \cup {Ratio(21, 0)}

\* A BackendStore (part_000 lines 69-103) carrying ratio r.
RatioPayload(r) ==
    [platform |-> "macos",
     foreground_rgb |-> <<0, 0, 0>>, foreground_hex |-> "#000000",
     foreground_is_dark |-> TRUE,
     background_rgb |-> <<255, 255, 255>>, background_hex |-> "#FFFFFF",
     background_is_dark |-> FALSE,
     contrast_ratio_rounded |-> r, continue_mode |-> FALSE]

RatioDeliveries == {[payload |-> RatioPayload(r), ratio |-> r] : r \in RatioGrid}

FlagsInit == Init /\ variant = VariantUI

FlagsNext ==
    \/ \E d \in RatioDeliveries : GetStoreResolve(d)
    \/ ListenRegistered
    \/ \E d \in RatioDeliveries : StoreUpdated(d)

FlagsSpec == FlagsInit /\ [][FlagsNext]_vars

\* The five conformance flags of UIStore.
FlagNames ==
    {"level143Regular", "level143Large", "level146Regular", "level146Large",
     "level1411"}

(***************************************************************************)
(* C14.  For every ratio r the flags left by the staged checks (all true,  *)
(* then r < 7, r < 4.5, r < 3 each clearing flags) equal the direct        *)
(* comparisons r >= 7, r >= 4.5, r >= 3.                                   *)
(***************************************************************************)
C14_StagedEqualsDirect == pc # "get_store" => FlagsMatch(store, backendRatio)

\* Ratio 4.499 was applied: the 4.5 stage cleared its two flags, the 3 stage
\* cleared none.
C14_Witness ==
    /\ pc = "listening"
    /\ backendRatio = Ratio(4, 499)
    /\ ~store.level146Regular /\ ~store.level143Regular /\ ~store.level146Large
    /\ store.level143Large /\ store.level1411

(***************************************************************************)
(* C15.  The flags are monotonic in the ratio: for all ratios r1 <= r2 in  *)
(* [1, 21], every flag that is true for r1 is true for r2.  r1 is the      *)
(* ratio the store's flags were computed from, r2 any ratio of the grid.   *)
(***************************************************************************)
C15_FlagsMonotonic ==
    pc # "get_store" =>
        \A r2 \in RatioGrid, f \in FlagNames :
            (backendRatio <= r2 /\ store[f]) => WcagFlags(r2)[f]

\* Ratio 3 was applied: the flags of the large-text levels are true, the
\* others false, and higher ratios exist in the grid.
C15_Witness ==
    /\ pc = "listening"
    /\ backendRatio = Ratio(3, 0)
    /\ store.level143Large /\ store.level1411
    /\ ~store.level143Regular /\ ~store.level146Large /\ ~store.level146Regular

(***************************************************************************)
(* C16.  The 4.5 boundary is exact: a ratio of exactly 4.5 gives           *)
(* level143Regular and level146Large true, every ratio strictly below 4.5  *)
(* (4.499 being the nearest of the grid) gives both false.                 *)
(***************************************************************************)
C16_BoundaryAtFourAndHalf ==
    pc # "get_store" =>
        /\ backendRatio = Ratio(4, 500) =>
               store.level143Regular /\ store.level146Large
        /\ backendRatio < Ratio(4, 500) =>
               ~store.level143Regular /\ ~store.level146Large

\* Exactly 4.5 was pushed after the startup snapshot.
C16_Witness ==
    /\ pc = "listening"
    /\ last = <<"update", "both">>
    /\ backendRatio = Ratio(4, 500)
    /\ store.contrastRatio = "4.5:1"
    /\ store.level143Regular /\ store.level146Large /\ ~store.level146Regular

(***************************************************************************)
(* The codec as a function of the hex string alone: the store of store.ts  *)
(* is given, as its startup snapshot, a payload whose foreground is each   *)
(* string of a set of well-formed and malformed inputs; it stores the      *)
(* string and hexToRgb of it.                                              *)
(***************************************************************************)

\* The hexadecimal digits of either case, and all two-digit strings of them.
HexChars == {CharAt("0123456789abcdefABCDEF", i) : i \in 1..22}
BytePairs == {a \o b : a \in HexChars, b \in HexChars}

\* Well-formed #RRGGBB strings: every two-digit string in each channel, and
\* all combinations of a few bytes.
ValidHexInputs ==
    LET few == {"00", "ff", "FF", "0a", "A0", "7f"}
    IN  {"#" \o p \o "0a" \o "Ff" : p \in BytePairs}
            \cup {"#" \o "Ff" \o p \o "0a" : p \in BytePairs}
            \cup {"#" \o "0a" \o "Ff" \o p : p \in BytePairs}
            \cup {"#" \o p \o q \o r : p \in few, q \in few, r \in few}

\* Malformed strings: too short, too long, without '#', with characters that
\* are no hex digits (letters, signs, an 0x prefix, white space of each kind).
MalformedHexInputs ==
    {"#", "#FFG", "#12345", "#GG0000", "#00GG00", "#FFFFFFFF", "FFFFFFF",
     "FFFFFF", " FFFFFF", "#+1+2+3", "#-1-2-3", "# 1 2 3", "#0x0x0x", "#1 2 3 ",
     "#\tF\tF\tF", "#\nA0000", "#\rF\fF00", "# F0000", "#F\t0000",
     "#F0000", "#0000F", "# F0000", "#0000﻿F"}

CodecInputs == ValidHexInputs \cup MalformedHexInputs

CodecDeliveries ==
    {[payload |-> [foreground |-> h, background |-> null, continue_mode |-> FALSE],
      ratio |-> 0] : h \in CodecInputs}

CodecInit == Init /\ variant = VariantHex

CodecNext == \E d \in CodecDeliveries : GetStoreResolve(d)

CodecSpec == CodecInit /\ [][CodecNext]_vars

\* The decimal digits.
DecimalChars == {CharAt("0123456789", i) : i \in 1..10}

\* s is a non-empty string of decimal digits.
IsDecimal(s) == Len(s) > 0 /\ \A i \in 1..Len(s) : CharAt(s, i) \in DecimalChars

\* The number written by the decimal digits of s after acc.
RECURSIVE DecimalValue(_, _)
DecimalValue(s, acc) ==
    IF Len(s) = 0 THEN acc
    ELSE DecimalValue(Slice(s, 1, Len(s)), acc * 10 + HexDigitValue(CharAt(s, 1)))

\* The 0-based index of the first ',' of s at or after index i (Len(s): none).
RECURSIVE FieldEnd(_, _)
FieldEnd(s, i) ==
    IF i >= Len(s) THEN Len(s)
    ELSE IF CharAt(s, i + 1) = "," THEN i ELSE FieldEnd(s, i + 1)

\* The three fields of a display string `${r}, ${g}, ${b}` (main.ts line 75).
DisplayFields(s) ==
    LET e1 == FieldEnd(s, 0)
        e2 == FieldEnd(s, e1 + 2)
    IN  <<Slice(s, 0, e1), Slice(s, e1 + 2, e2), Slice(s, e2 + 2, Len(s))>>

\* s is the display string of a colour: three decimal bytes, ", " between.
IsRgbDisplay(s) ==
    LET f == DisplayFields(s)
    IN  /\ \A i \in 1..3 : IsDecimal(f[i]) /\ Len(f[i]) <= 3
                                /\ DecimalValue(f[i], 0) <= 255
        /\ s = f[1] \o ", " \o f[2] \o ", " \o f[3]

\* The RGB triple a display string denotes.
RgbOfDisplay(s) ==
    LET f == DisplayFields(s)
    IN  <<DecimalValue(f[1], 0), DecimalValue(f[2], 0), DecimalValue(f[3], 0)>>

(***************************************************************************)
(* C17.  For every valid #RRGGBB string h of either letter case, hexToRgb  *)
(* followed by rgbToHex on the three channels gives uppercase(h).          *)
(***************************************************************************)
C17_HexRgbHexRoundTrip ==
    (pc # "get_store" /\ IsHex6(store.foreground)) =>
        /\ IsRgbDisplay(store.foregroundRgb)
        /\ LET c == RgbOfDisplay(store.foregroundRgb)
           IN  rgbToHex(c[1], c[2], c[3]) = toUpperCase(store.foreground)

\* A mixed-case string with a byte below 16 went through hexToRgb.
C17_Witness ==
    /\ pc = "listen"
    /\ store.foreground = "#c30aFf"
    /\ store.foregroundRgb = "195, 10, 255"

(***************************************************************************)
(* C18.  hexToRgb fails for every input that is not exactly 7 characters   *)
(* starting with '#' or that has a non-hex digit after the '#': it never   *)
(* returns a colour value for such an input.                               *)
(***************************************************************************)
C18_MalformedHexFails ==
    (pc # "get_store" /\ store.foreground # "" /\ ~IsHex6(store.foreground)) =>
        ~IsRgbDisplay(store.foregroundRgb)

\* A side of a hex payload is present but no #RRGGBB string.
SideMalformed(v, payload, role) ==
    v = VariantHex /\ Truthy(payload[role]) /\ ~IsHex6(payload[role])

\* A side of a hex payload is present and a #RRGGBB string.
SideWellFormed(v, payload, role) ==
    v = VariantHex /\ Truthy(payload[role]) /\ IsHex6(payload[role])

(***************************************************************************)
(* C19.  An update whose present foreground or background hex string is    *)
(* malformed is rejected: that role's hex and RGB fields are as before     *)
(* the call, and so is resultVisible (unless the payload's other side is   *)
(* a well-formed colour, which may show the results).                      *)
(***************************************************************************)
C19_MalformedUpdateRejected ==
    \A d \in Deliveries(variant), role \in Roles :
        SideMalformed(variant, d.payload, role) =>
            LET after == updateFromTauriStore(variant, store, d.payload)
            IN  /\ SideFields(variant, after, role) = SideFields(variant, store, role)
                /\ (\A other \in Roles : ~SideWellFormed(variant, d.payload, other))
                       => after.resultVisible = store.resultVisible

(***************************************************************************)
(* C20.  When the clipboard write fails, copyHex changes no field of the   *)
(* UI state (copiedVisible stays as it was, so false stays false) and      *)
(* schedules no hide timer.                                                *)
(***************************************************************************)
C20_FailedCopyChangesNothing ==
    [][last' = <<"clipboard:error", "-">> => store' = store /\ timers' = timers]_vars

\* A copy just failed: no notification is shown and no timer is pending.
C20_Witness ==
    /\ last = <<"clipboard:error", "-">>
    /\ variant = VariantDom
    /\ ~store.copiedVisible
    /\ timers = <<>>
    /\ clipPending = 0

\* The sample strings that are #RRGGBB colours, and the "r, g, b" text of
\* each, worked out from the values of its six digits.
WellFormedSamples == {h \in HexSamples : IsHex6(h)}
RgbTextOfSample ==
    [h \in WellFormedSamples |->
        RgbDisplay(<<ByteAt(h, 2), ByteAt(h, 4), ByteAt(h, 6)>>)]

(***************************************************************************)
(* C21.  When a side is present in the payload (a #RRGGBB string),         *)
(* updateFromTauriStore sets that side's hex field to the payload value,   *)
(* its RGB field to the decimal "r, g, b" rendering of that value, and     *)
(* resultVisible to true; applied to the fresh store with only the         *)
(* foreground present, the background fields stay empty.                   *)
(***************************************************************************)
C21_PresentSideWritten ==
    variant = VariantHex =>
        \A d \in HexDeliveries :
            LET after == updateFromTauriStore(variant, store, d.payload)
            IN  /\ \A role \in Roles :
                      d.payload[role] \in WellFormedSamples =>
                          /\ SideFields(variant, after, role) =
                                 <<d.payload[role], RgbTextOfSample[d.payload[role]]>>
                          /\ after.resultVisible
                /\ (/\ store = colorPickerStore
                    /\ Truthy(d.payload.foreground)
                    /\ ~Truthy(d.payload.background))
                       => after.background = "" /\ after.backgroundRgb = ""

\* The spec's example: { foreground: "#FFFFFF", background: null } was applied
\* to the fresh store as the startup snapshot.
C21_Witness ==
    /\ variant = VariantHex
    /\ pc = "listen"
    /\ last = <<"update", "fg">>
    /\ store = [colorPickerStore EXCEPT !.foreground = "#FFFFFF",
                                        !.foregroundRgb = "255, 255, 255",
                                        !.resultVisible = TRUE]

\* The colour fields of a store: hex, RGB, dark flags, ratio, WCAG flags and
\* resultVisible, i.e. all fields but isPicking, copiedVisible and, in the
\* UIStore, currentICCProfile.
ColourFields(v, st) ==
    IF v = VariantUI THEN [ColourState(v, st) EXCEPT !.currentICCProfile = "Auto"]
    ELSE ColourState(v, st)

(***************************************************************************)
(* C22.  The colour fields change only in two kinds of step.  In the       *)
(* stores fed by the backend (store.ts, part_000, part_001) the only       *)
(* writer is updateFromTauriStore: pickColor, its settlement, copyHex, the *)
(* clipboard outcome and the copied timer leave every colour field         *)
(* unchanged.  In the single-colour versions (part_002, the page script of *)
(* main.ts), which have no updateFromTauriStore, the only writer is        *)
(* pickColor when pick_color resolves with a foreground sample.            *)
(***************************************************************************)
C22_SingleWriter ==
    [][ColourFields(variant, store') # ColourFields(variant, store) =>
           \/ HasStartup(variant) /\ last'[1] = "update"
           \/ variant \in SingleColour /\ last' = <<"pick:sample", "-">>]_vars

\* C22 as the claim states it, for every version: pickColor and copyHex
\* never write a colour field, which changes only inside
\* updateFromTauriStore.
C22_SingleWriterEveryVersion ==
    [][last'[1] # "update" =>
           ColourFields(variant, store') = ColourFields(variant, store)]_vars

\* pick_color just resolved with a sample in store.ts and nothing is shown:
\* the sample reaches the store only through a later store-updated push.
C22_Witness ==
    /\ variant = VariantHex
    /\ last = <<"pick:sample", "-">>
    /\ store.foreground = ""
    /\ store.foregroundRgb = ""
    /\ ~store.resultVisible

(***************************************************************************)
(* C23.  currentICCProfile has its own lifecycle: an application of        *)
(* updateFromTauriStore changes neither currentICCProfile nor isPicking,   *)
(* and the icc-profile-changed handler changes currentICCProfile only,     *)
(* leaving every colour field, the ratio and the WCAG flags as they were.  *)
(***************************************************************************)
C23_ProfileIndependent ==
    [][/\ last'[1] = "update" =>
              /\ store'.currentICCProfile = store.currentICCProfile
              /\ store'.isPicking = store.isPicking
       /\ last' = <<"icc", "event">> =>
              [store' EXCEPT !.currentICCProfile = store.currentICCProfile]
                  = store]_vars

\* A store-updated payload was just applied during a pick, after the handler
\* of icc-profile-changed had set the profile: both are as before the update.
C23_Witness ==
    /\ variant = VariantUI
    /\ last[1] = "update"
    /\ icc.pc # "off"
    /\ store.currentICCProfile = "Display P3"
    /\ store.isPicking
    /\ store.foregroundHex # ""

(***************************************************************************)
(* rgbToHex on a grid of channel values: part_002's pickColor, the caller  *)
(* of rgbToHex (lines 37-47), run once on each sampled colour.             *)
(***************************************************************************)

\* The values of one channel.
ChannelValues == 0..255

\* Channel values around the one-digit / two-digit and the letter boundaries.
ChannelEdges == {0, 9, 10, 15, 16, 127, 160, 255}

\* The sampled colours: every value of each channel, and every combination
\* of the boundary values.
RgbGrid ==
    {<<k, 0, 255>> : k \in ChannelValues}
        \cup {<<255, k, 0>> : k \in ChannelValues}
        \cup {<<0, 255, k>> : k \in ChannelValues}
        \cup (ChannelEdges \X ChannelEdges \X ChannelEdges)

\* pick_color results carrying a colour of the grid.
RgbGridResults ==
    [isNull : {FALSE}, foreground : RgbGrid, background : {NoColor}]

RgbInit == Init /\ variant = VariantSingle

RgbNext ==
    \/ Outstanding = 0 /\ store.hex = "" /\ PickColor(TRUE)
    \/ \E color \in RgbGridResults : PickResolve(TRUE, color)

RgbSpec == RgbInit /\ [][RgbNext]_vars

\* The two upper-case hexadecimal digits of a byte, by table.
UpperHexDigits == "0123456789ABCDEF"
TwoHexDigits(k) ==
    SubSeq(UpperHexDigits, (k \div 16) + 1, (k \div 16) + 1)
        \o SubSeq(UpperHexDigits, (k % 16) + 1, (k % 16) + 1)

(***************************************************************************)
(* C24.  For every r, g, b in 0..255 rgbToHex(r, g, b) has exactly seven   *)
(* characters: '#', then red, green and blue in this order, each as two    *)
(* zero-padded upper-case hexadecimal digits.                              *)
(***************************************************************************)
C24_RgbToHexFormat ==
    (variant = VariantSingle /\ store.hex # "") =>
        LET c == RgbOfDisplay(store.rgb)
        IN  /\ c \in RgbGrid
            /\ Len(store.hex) = 7
            /\ store.hex = "#" \o TwoHexDigits(c[1]) \o TwoHexDigits(c[2])
                               \o TwoHexDigits(c[3])

\* rgbToHex(255, 10, 0): a padded channel, letters, three distinct channels.
C24_Witness ==
    /\ variant = VariantSingle
    /\ store.rgb = "255, 10, 0"
    /\ store.hex = "#FF0A00"

(***************************************************************************)
(* C25.  No backend update is lost during startup: once the store-updated  *)
(* listener is registered, no payload emitted after the get_store snapshot *)
(* is still unapplied with the store differing from what applying it       *)
(* gives.                                                                  *)
(***************************************************************************)
C25_NoUpdateLost ==
    (pc = "listening" /\ behind # <<>>) =>
        store = updateFromTauriStore(variant, store, behind[1])

(***************************************************************************)
(* C26.  currentICCProfile never regresses: right after the startup fetch  *)
(* get_selected_icc_profile has been handled, with the profile-changed     *)
(* listener on since before the fetch was issued, currentICCProfile is     *)
(* the profile selected in the backend ('Auto' when none is).              *)
(***************************************************************************)
C26_ProfileNeverRegresses ==
    last = <<"icc", "fetch">> =>
        store.currentICCProfile =
            IF Truthy(icc.selected) THEN icc.selected ELSE "Auto"

(***************************************************************************)
(* C27.  The published ratio and WCAG flags are never stale: applied to    *)
(* any reachable store, whatever was applied before, updateFromTauriStore  *)
(* leaves contrastRatio and the five flags as the applied payload alone    *)
(* determines them (flags cleared earlier are true again when its ratio    *)
(* meets their threshold).                                                 *)
(***************************************************************************)
C27_RatioAndFlagsOfLastPayload ==
    variant = VariantUI =>
        \A d \in Deliveries(variant) :
            LET after == updateFromTauriStore(variant, store, d.payload)
                x == d.payload.contrast_ratio_rounded
            IN  /\ after.contrastRatio = RatioToString(x) \o ":1"
                /\ FlagsMatch(after, x)

\* A payload of ratio 1 was applied and cleared all five flags, and the
\* listener is on: the next payload, of any ratio, is applied to this store.
C27_Witness ==
    /\ variant = VariantUI
    /\ pc = "listening"
    /\ last[1] = "update"
    /\ store.contrastRatio = "1:1"
    /\ ~store.level146Regular
    /\ ~store.level143Regular
    /\ ~store.level1411

(***************************************************************************)
(* C28.  In every reachable state of the UIStore the five WCAG flags are   *)
(* consistent with the order of the thresholds: level143Regular equals     *)
(* level146Large, level143Large equals level1411, level146Regular implies  *)
(* level143Regular, and level143Regular implies level143Large.             *)
(***************************************************************************)
C28_FlagsConsistent ==
    variant = VariantUI =>
        /\ store.level143Regular = store.level146Large
        /\ store.level143Large = store.level1411
        /\ store.level146Regular => store.level143Regular
        /\ store.level143Regular => store.level143Large

\* A payload with a ratio between 3 and 4.5 was applied: the two large-text
\* flags of the 3 stage are true, the flags of the 4.5 and 7 stages false.
C28_Witness ==
    /\ variant = VariantUI
    /\ pc = "listening"
    /\ last[1] = "update"
    /\ store.level143Large /\ store.level1411
    /\ ~store.level143Regular /\ ~store.level146Large
    /\ ~store.level146Regular

(***************************************************************************)
(* C29.  In every reachable state of the hex-based store (store.ts),       *)
(* resultVisible is true if and only if the foreground or the background   *)
(* hex field is non-empty.                                                 *)
(***************************************************************************)
C29_VisibleIffSomeSide ==
    variant = VariantHex =>
        (store.resultVisible <=> (store.foreground # "" \/ store.background # ""))

\* Only background-carrying payloads were applied: the results are shown
\* with the foreground still empty.
C29_Witness ==
    /\ variant = VariantHex
    /\ pc = "listening"
    /\ store.resultVisible
    /\ store.foreground = ""
    /\ store.background = "#0a1B2c"

(***************************************************************************)
(* C30.  A failure of the startup get_store call is recovered: right       *)
(* after it the store has its initial values and the IIFE goes on to       *)
(* register the store-updated listener; the registration can then          *)
(* complete, and once the listener is on every pushed payload is handled.  *)
(***************************************************************************)
C30_GetStoreFailureRecovered ==
    /\ last = <<"get_store:error", "-">> =>
           /\ store = InitialStore(variant)
           /\ pc = "listen"
    /\ pc = "listen" => ENABLED ListenRegistered
    /\ pc = "listening" =>
           \A d \in Deliveries(variant) : ENABLED StoreUpdated(d)

\* get_store was just rejected in store.ts: nothing is shown, step 2 is next.
C30_Witness ==
    /\ variant = VariantHex
    /\ last = <<"get_store:error", "-">>
    /\ store = colorPickerStore
    /\ pc = "listen"

=============================================================================
